---- MODULE Spec2Model ----
(***************************************************************************)
(* Year-partitioned OHLCV store of SQL_Interface.py (class SQL).           *)
(*                                                                         *)
(* The MySQL backend is modelled as a map from table names to bags of      *)
(* rows.  A pandas DataFrame is modelled as a bag of rows: no operation of *)
(* the class (groupby, concat/drop_duplicates, to_sql) depends on the row  *)
(* order.  Two specifications share the backend:                           *)
(*   Spec   sequential callers; insert_data and query_one_symbol are       *)
(*          atomic handlers.                                               *)
(*   SpecC  two callers run pandas_upload on one table concurrently, one   *)
(*          backend statement per step.                                    *)
(***************************************************************************)
EXTENDS Integers, FiniteSets, Sequences, Bags, TLC

\* ------------------------------------------------------------------ bounds
\* Rows of one caller DataFrame.
MaxLen == 2
\* insert_data calls in one behaviour of Spec.
MaxInserts == 2

\* ---------------------------------------------------------------- constants
\* OHLC values are multiplied by 10000 before they are stored.
Scale == 10000
\* Largest value of a MySQL INT column (Open INT, ...).
IntMax == 2147483647

\* ------------------------------------------------------------------- inputs
Symbols == {"SYM"}
Years == 2018 .. 2020
\* Instants of a year, in order: 0 is Jan 1 00:00:00, the last is Dec 31 23:59:59.
Ticks == 0 .. 1
LastTick == CHOOSE k \in Ticks : \A j \in Ticks : j <= k
Prices == {1}
Callers == {1, 2}

Timestamps == [year : Years, tick : Ticks]

TsLeq(a, b) == a.year < b.year \/ (a.year = b.year /\ a.tick <= b.tick)

\* A flat bar: one DataFrame row with columns Datetime, Open, Close, High, Low, Volume.
MkRow(ts, p) ==
  [Datetime |-> ts, Open |-> p, Close |-> p, High |-> p, Low |-> p, Volume |-> 100]

RawRecords == {MkRow(ts, p) : ts \in Timestamps, p \in Prices}

BagsUpTo[n \in Nat] ==
  IF n = 0 THEN {EmptyBag}
  ELSE LET prev == BagsUpTo[n - 1]
       IN  prev \cup {b (+) SetToBag({r}) : b \in prev, r \in RawRecords}

\* The DataFrames a caller builds: 1 .. MaxLen raw rows, duplicates allowed.
Batches == BagsUpTo[MaxLen] \ {EmptyBag}

\* "No year": a value below every calendar year of the model.
NoYear == (CHOOSE y \in Years : \A z \in Years : y <= z) - 1
NoFault == [year |-> NoYear, stmt |-> "none"]
\* The backend rejects the first statement of kind stmt issued for the year.
Faults == [year : Years, stmt : {"create", "select", "to_sql"}]

VARIABLES
  tables,        \* backend: table name -> bag of stored rows (DOMAIN = show tables)
  data,          \* the caller's DataFrame object, as the last insert_data left it
  ninserts,      \* insert_data calls so far
  op,            \* last handler run: "none", "insert", "query"
  ticker,        \* its symbol argument
  arg,           \* insert: the DataFrame's rows as passed in
  reuse,         \* insert: the caller passed the object of the previous call again
  raised,        \* insert: year whose pandas_upload raised, or NoYear
  appended,      \* insert: rows written by to_sql in this call
  created,       \* insert: tables created in this call
  qstart, qend,  \* query: the range asked for
  reads,         \* query: the SELECTs of the UNION, in order
  result,        \* query: rows returned, or the backend's error
  pc, frame, existing_data, initial, raced   \* SpecC

vars == <<tables, data, ninserts, op, ticker, arg, reuse, raised, appended, created,
          qstart, qend, reads, result, pc, frame, existing_data, initial, raced>>

seqVars == <<data, ninserts, op, ticker, arg, reuse, raised, appended, created,
             qstart, qend, reads, result>>
concVars == <<pc, frame, existing_data, initial, raced>>

\* ------------------------------------------------------------ insert path
YearOf(ts) == ts.year

TableName(symbol, year) == <<symbol, year>>

show_tables(tabs) == DOMAIN tabs

Encode(p) == p * Scale

EncodeRow(r) ==
  [Datetime |-> r.Datetime, Open |-> Encode(r.Open), Close |-> Encode(r.Close),
   High |-> Encode(r.High), Low |-> Encode(r.Low), Volume |-> r.Volume]

\* Encode is injective, so the multiplicity of a row carries over.
EncodeFrame(df) ==
  [v \in {EncodeRow(r) : r \in DOMAIN df} |->
     df[CHOOSE r \in DOMAIN df : EncodeRow(r) = v]]

\* Every encoded price still fits an INT column.
FitsInt(df) ==
  \A r \in DOMAIN df :
    \A p \in {r.Open, r.Close, r.High, r.Low} : p <= IntMax \div Scale

\* Mutant of GroupOf: the whole frame is uploaded for every year.
GroupOf_whole_frame(df, year) == df

GroupOf(df, year) ==
  [r \in {x \in DOMAIN df : YearOf(x.Datetime) = year} |-> df[r]]

MinYear(df) ==
  CHOOSE y \in {YearOf(r.Datetime) : r \in DOMAIN df} :
    \A r \in DOMAIN df : y <= YearOf(r.Datetime)

MaxYear(df) ==
  CHOOSE y \in {YearOf(r.Datetime) : r \in DOMAIN df} :
    \A r \in DOMAIN df : YearOf(r.Datetime) <= y

\* SELECT distinct ... WHERE Datetime BETWEEN min AND max: a set of rows.
ExistingData(stored, df) ==
  {e \in DOMAIN stored :
     /\ \E r \in DOMAIN df : TsLeq(r.Datetime, e.Datetime)
     /\ \E r \in DOMAIN df : TsLeq(e.Datetime, r.Datetime)}

\* Mutant of DropDuplicates: the existing rows are not subtracted.
DropDuplicates_keep_all(df, existing) == df

\* concat([data, existing, existing]).drop_duplicates(keep=False): the rows
\* that occur exactly once in the concatenation.
DropDuplicates(df, existing) ==
  [r \in {x \in DOMAIN df : df[x] = 1 /\ x \notin existing} |-> 1]

\* pandas_upload on backend tabs; stmt is the statement the backend rejects
\* in this call ("none": it rejects nothing).  A rejected statement raises
\* out of pandas_upload; a rejected to_sql writes no row.
PandasUpload(tabs, df, name, stmt) ==
  IF name \notin show_tables(tabs)
  THEN IF stmt = "create"
       THEN [tabs |-> tabs, appended |-> EmptyBag, created |-> {}, raised |-> TRUE]
       ELSE LET made == tabs @@ (name :> EmptyBag)
            IN  IF stmt = "to_sql"
                THEN [tabs |-> made, appended |-> EmptyBag,
                      created |-> {name}, raised |-> TRUE]
                ELSE [tabs |-> [made EXCEPT ![name] = df], appended |-> df,
                      created |-> {name}, raised |-> FALSE]
  ELSE IF stmt \in {"select", "to_sql"}
       THEN [tabs |-> tabs, appended |-> EmptyBag, created |-> {}, raised |-> TRUE]
       ELSE LET new == DropDuplicates(df, ExistingData(tabs[name], df))
            IN  [tabs |-> [tabs EXCEPT ![name] = @ (+) new], appended |-> new,
                 created |-> {}, raised |-> FALSE]

\* The loop over data.groupby(pd.Grouper(freq="Y")): one group per calendar
\* year from the first to the last year of the frame, empty groups included;
\* an exception of pandas_upload leaves the loop.  (For an empty group and an
\* existing table the SELECT is built from NaT bounds: the backend answers
\* with no row or rejects it, which is the "select" fault of that year.)
RECURSIVE RunYears(_, _, _, _, _, _)
RunYears(tabs, df, symbol, year, last, fault) ==
  IF year > last
  THEN [tabs |-> tabs, appended |-> EmptyBag, created |-> {}, raised |-> NoYear]
  ELSE LET stmt == IF fault.year = year THEN fault.stmt ELSE "none"
           up   == PandasUpload(tabs, GroupOf(df, year), TableName(symbol, year), stmt)
       IN  IF up.raised
           THEN [tabs |-> up.tabs, appended |-> up.appended,
                 created |-> up.created, raised |-> year]
           ELSE LET rest == RunYears(up.tabs, df, symbol, year + 1, last, fault)
                IN  [tabs |-> rest.tabs, appended |-> up.appended (+) rest.appended,
                     created |-> up.created \cup rest.created, raised |-> rest.raised]

InsertData(symbol, df, fault) ==
  LET enc == EncodeFrame(df)
      run == RunYears(tables, enc, symbol, MinYear(enc), MaxYear(enc), fault)
  IN  /\ tables' = run.tabs
      /\ data' = enc
      /\ arg' = df
      /\ reuse' = (df = data)
      /\ raised' = run.raised
      /\ appended' = run.appended
      /\ created' = run.created

insert_data ==
  /\ ninserts < MaxInserts
  /\ \E symbol \in Symbols, df \in Batches \cup {data} :
       /\ df # EmptyBag
       /\ FitsInt(df)
       /\ ticker' = symbol
       /\ \E fault \in {NoFault} \cup {f \in Faults : f.year \in MinYear(df) .. MaxYear(df)} :
            InsertData(symbol, df, fault)
  /\ ninserts' = ninserts + 1
  /\ op' = "insert"
  /\ qstart' = NoYear /\ qend' = NoYear /\ reads' = <<>> /\ result' = {}
  /\ UNCHANGED concVars

\* ------------------------------------------------------------- query path
Read(symbol, year, where) == [table |-> TableName(symbol, year), where |-> where]

\* Mutant of FullYears: range(start_year + 1, end_year + 1).
RECURSIVE FullYears_through_end(_, _, _)
FullYears_through_end(symbol, year, end_year) ==
  IF year > end_year THEN <<>>
  ELSE <<Read(symbol, year, "all")>> \o FullYears_through_end(symbol, year + 1, end_year)

RECURSIVE FullYears(_, _, _)
FullYears(symbol, year, end_year) ==
  IF year >= end_year THEN <<>>
  ELSE <<Read(symbol, year, "all")>> \o FullYears(symbol, year + 1, end_year)

\* The SELECTs of sql_str, in the order they are chained with UNION.
QueryPlan(symbol, start_date, end_date) ==
  <<Read(symbol, YearOf(start_date), "between")>>
  \o FullYears(symbol, YearOf(start_date) + 1, YearOf(end_date))
  \o <<Read(symbol, YearOf(end_date), "between")>>

Between(ts, start_date, end_date) == TsLeq(start_date, ts) /\ TsLeq(ts, end_date)

RowsOfRead(tabs, rd, start_date, end_date) ==
  {r \in DOMAIN tabs[rd.table] :
     rd.where = "between" => Between(r.Datetime, start_date, end_date)}

\* CAST(x AS DECIMAL) / 10000: the units and the ten-thousandths.
Decode(v) == [units |-> v \div Scale, frac |-> v % Scale]

DecodeRow(r) ==
  [Datetime |-> r.Datetime, Open |-> Decode(r.Open), Close |-> Decode(r.Close),
   High |-> Decode(r.High), Low |-> Decode(r.Low), Volume |-> r.Volume]

\* UNION keeps distinct rows; a SELECT from a table that does not exist makes
\* the backend reject the whole statement.
RunQuery(tabs, plan, start_date, end_date) ==
  IF \E i \in 1 .. Len(plan) : plan[i].table \notin show_tables(tabs)
  THEN [status |-> "error", rows |-> {}]
  ELSE [status |-> "ok",
        rows |-> {DecodeRow(r) : r \in UNION {RowsOfRead(tabs, plan[i], start_date, end_date) :
                                      i \in 1 .. Len(plan)}}]

\* Callers ask for ranges with start_date <= end_date.
query_one_symbol ==
  /\ \E symbol \in Symbols, start_date \in Timestamps, end_date \in Timestamps :
       LET plan == QueryPlan(symbol, start_date, end_date)
       IN  /\ TsLeq(start_date, end_date)
           /\ ticker' = symbol
           /\ qstart' = start_date
           /\ qend' = end_date
           /\ reads' = plan
           /\ result' = RunQuery(tables, plan, start_date, end_date)
  /\ op' = "query"
  /\ arg' = EmptyBag /\ reuse' = FALSE /\ raised' = NoYear
  /\ appended' = EmptyBag /\ created' = {}
  /\ UNCHANGED <<tables, data, ninserts>>
  /\ UNCHANGED concVars

\* ------------------------------------------------------------ sequential
Init ==
  /\ tables = <<>>
  /\ data = EmptyBag
  /\ ninserts = 0
  /\ op = "none"
  /\ ticker = "SYM"
  /\ arg = EmptyBag /\ reuse = FALSE /\ raised = NoYear
  /\ appended = EmptyBag /\ created = {}
  /\ qstart = NoYear /\ qend = NoYear /\ reads = <<>> /\ result = {}
  /\ pc = [c \in Callers |-> "idle"]
  /\ frame = [c \in Callers |-> EmptyBag]
  /\ existing_data = [c \in Callers |-> {}]
  /\ initial = <<>>
  /\ raced = FALSE

Next == insert_data \/ query_one_symbol

Spec == Init /\ [][Next]_vars

\* ------------------------------------------------------------ concurrent
\* Two callers run pandas_upload(frame[c], Target) at the same time.  Each
\* backend statement (show tables, CREATE TABLE, SELECT, INSERT) is one step.
Target == TableName("SYM", 2018)

\* Encoded frames of the target's year, as insert_data passes them on.
TargetFrames ==
  {EncodeFrame(b) : b \in {x \in Batches : \A r \in DOMAIN x : YearOf(r.Datetime) = 2018}}

\* The backend before the two calls: the table is absent, or it holds what an
\* earlier insert_data left there (nothing, when its to_sql was rejected).
InitC ==
  /\ tables \in {<<>>} \cup {Target :> stored : stored \in TargetFrames \cup {EmptyBag}}
  /\ frame \in [Callers -> TargetFrames]
  /\ initial = [tables |-> tables, frame |-> frame]
  /\ pc = [c \in Callers |-> "show_tables"]
  /\ existing_data = [c \in Callers |-> {}]
  /\ raced = FALSE
  /\ data = EmptyBag
  /\ ninserts = 0
  /\ op = "none"
  /\ ticker = "SYM"
  /\ arg = EmptyBag /\ reuse = FALSE /\ raised = NoYear
  /\ appended = EmptyBag /\ created = {}
  /\ qstart = NoYear /\ qend = NoYear /\ reads = <<>> /\ result = {}

\* if table_name not in self.show_tables
u_show_tables(c) ==
  /\ pc[c] = "show_tables"
  /\ pc' = [pc EXCEPT ![c] = IF Target \notin show_tables(tables) THEN "create" ELSE "select"]
  /\ UNCHANGED <<tables, frame, existing_data, initial, raced>>
  /\ UNCHANGED seqVars

\* create_table_ohlc: CREATE TABLE is rejected when the table exists by now.
u_create(c) ==
  /\ pc[c] = "create"
  /\ IF Target \in show_tables(tables)
     THEN /\ pc' = [pc EXCEPT ![c] = "raised"]
          /\ UNCHANGED tables
     ELSE /\ pc' = [pc EXCEPT ![c] = "to_sql"]
          /\ tables' = tables @@ (Target :> EmptyBag)
  /\ UNCHANGED <<frame, existing_data, initial, raced>>
  /\ UNCHANGED seqVars

\* existing_data = self.query_sql(...), then data = concat(...).drop_duplicates
u_select(c) ==
  /\ pc[c] = "select"
  /\ LET existing == ExistingData(tables[Target], frame[c])
     IN  /\ existing_data' = [existing_data EXCEPT ![c] = existing]
         /\ frame' = [frame EXCEPT ![c] = DropDuplicates(frame[c], existing)]
  /\ raced' = (raced \/ \E d \in Callers \ {c} : pc[d] = "to_sql")
  /\ pc' = [pc EXCEPT ![c] = "to_sql"]
  /\ UNCHANGED <<tables, initial>>
  /\ UNCHANGED seqVars

\* data.to_sql(name=table_name, if_exists='append')
u_to_sql(c) ==
  /\ pc[c] = "to_sql"
  /\ tables' = [tables EXCEPT ![Target] = @ (+) frame[c]]
  /\ pc' = [pc EXCEPT ![c] = "done"]
  /\ UNCHANGED <<frame, existing_data, initial, raced>>
  /\ UNCHANGED seqVars

NextC ==
  \E c \in Callers : u_show_tables(c) \/ u_create(c) \/ u_select(c) \/ u_to_sql(c)

SpecC == InitC /\ [][NextC]_vars

\* ---------------------------------------------------------------- claims
Stored(tabs, name) == IF name \in DOMAIN tabs THEN tabs[name] ELSE EmptyBag

PartitionOf(r) == TableName(ticker, YearOf(r.Datetime))

NoneStored(tabs, symbol, df) ==
  \A r \in DOMAIN df :
    ~BagIn(r, Stored(tabs, TableName(symbol, YearOf(r.Datetime))))

Max0(n) == IF n < 0 THEN 0 ELSE n

\* C1: a batch none of whose records is stored appends len(batch) rows, and
\* passing the same batch to insert_data again right afterwards appends no
\* row and leaves the stored rows as they were (calls that do not raise).
C1_IdempotentInsert ==
  [][(op' = "insert" /\ raised' = NoYear) =>
       /\ (~reuse' /\ NoneStored(tables, ticker', data'))
            => BagCardinality(appended') = BagCardinality(arg')
       /\ (reuse' /\ op = "insert" /\ raised = NoYear /\ ticker' = ticker)
            => (appended' = EmptyBag /\ tables' = tables)]_vars

\* C2: an insert that does not raise appends, of every row value v, exactly
\* max(0, copies of v in the batch - copies of v already in v's partition).
C2_MultisetSubtraction ==
  [][(op' = "insert" /\ raised' = NoYear) =>
       \A v \in DOMAIN data' :
         CopiesIn(v, appended') =
           Max0(CopiesIn(v, data')
                - CopiesIn(v, Stored(tables, TableName(ticker', YearOf(v.Datetime)))))]_vars

\* The stored rows of the spanned years that have a partition, decoded.
RowsInRange ==
  {DecodeRow(r) :
     r \in UNION {{x \in DOMAIN Stored(tables, TableName(ticker, y)) :
                     Between(x.Datetime, qstart, qend)} :
                  y \in YearOf(qstart) .. YearOf(qend)}}

\* C3: a query of a range start <= end does not fail, whichever spanned
\* years lack a partition, and returns the rows in range of the spanned
\* partitions that exist.
C3_MissingPartitionSkipped ==
  (op = "query" /\ TsLeq(qstart, qend)) =>
    (result.status = "ok" /\ result.rows = RowsInRange)

\* C4: when the upload of one year raises, every record of the batch that
\* lies in another year is nevertheless stored in its partition.
C4_YearsIndependent ==
  (op = "insert" /\ raised # NoYear) =>
    \A r \in DOMAIN data :
      YearOf(r.Datetime) # raised => BagIn(r, Stored(tables, PartitionOf(r)))

SpanLen == YearOf(qend) - YearOf(qstart) + 1

\* A stored row of the read's table is selected by the read exactly when it
\* is >= start in the first spanned year and <= end in the last.
ReadRestricts(rd) ==
  \A r \in DOMAIN Stored(tables, rd.table) :
    (rd.where = "between" => Between(r.Datetime, qstart, qend))
      <=> /\ (rd.table[2] = YearOf(qstart) => TsLeq(qstart, r.Datetime))
          /\ (rd.table[2] = YearOf(qend) => TsLeq(r.Datetime, qend))

C6_YearRouting ==
  \A name \in DOMAIN tables :
    \A r \in DOMAIN tables[name] : YearOf(r.Datetime) = name[2]

\* One batch put 2019-12-31T23:59:59 in SYM_2019 and 2020-01-01T00:00:00 in SYM_2020.
C6_Witness ==
  /\ op = "insert" /\ raised = NoYear
  /\ \E p \in Prices :
       arg = SetToBag({MkRow([year |-> 2019, tick |-> LastTick], p),
                       MkRow([year |-> 2020, tick |-> 0], p)})
  /\ \E r \in DOMAIN Stored(tables, TableName("SYM", 2019)) :
       r.Datetime = [year |-> 2019, tick |-> LastTick]
  /\ \E r \in DOMAIN Stored(tables, TableName("SYM", 2020)) :
       r.Datetime = [year |-> 2020, tick |-> 0]

\* C7: no partition holds two rows with the same timestamp.
C7_TimestampUnique ==
  \A name \in DOMAIN tables :
    \A r \in DOMAIN tables[name] :
      /\ CopiesIn(r, tables[name]) = 1
      /\ \A q \in DOMAIN tables[name] : q.Datetime = r.Datetime => q = r

\* C8: a partition comes to exist only in an insert_data call whose batch has
\* a record of the partition's year and symbol, and no partition disappears.
C8_LazyPartitions ==
  [][/\ DOMAIN tables \subseteq DOMAIN tables'
     /\ \A name \in DOMAIN tables' \ DOMAIN tables :
          /\ op' = "insert"
          /\ name[1] = ticker'
          /\ \E r \in DOMAIN arg' : YearOf(r.Datetime) = name[2]]_vars

\* Both calls are over, the table existed before them, and r is a row that
\* was not stored and that each caller's frame holds once.
BothInsertedNew(r) ==
  /\ \A c \in Callers : pc[c] = "done"
  /\ Target \in DOMAIN initial.tables
  /\ ~BagIn(r, initial.tables[Target])
  /\ \A c \in Callers : CopiesIn(r, initial.frame[c]) = 1

\* C9: two callers insert the same new record into the same existing
\* partition: the partition ends with two copies of it when one caller read
\* the existing rows while the other was between its read and its append,
\* and with one copy when the calls ran one after the other.
C9_SnapshotRace ==
  \A r \in DOMAIN initial.frame[1] :
    BagIn(r, initial.frame[1]) /\ BothInsertedNew(r) =>
      CopiesIn(r, tables[Target]) = IF raced THEN 2 ELSE 1

\* The interleaved run: the record is stored twice.
C9_Witness ==
  /\ raced
  /\ \E r \in DOMAIN initial.frame[1] :
       BothInsertedNew(r) /\ CopiesIn(r, tables[Target]) = 2

\* C10: insert_data leaves the rows of the caller's DataFrame as they were
\* passed in.
C10_BatchUnchanged ==
  op = "insert" => data = arg

====
